---- MODULE Spec2Model ----
(***************************************************************************)
(* Keccak-prime (src/src/prime.rs): the orchestration function `prime`,    *)
(* which expands a block, runs a chain of VDF solves over it and extracts  *)
(* a penalised Keccak digest.                                              *)
(*                                                                         *)
(* Byte strings are abstract values: a record holding the array length     *)
(* where the type fixes one, and the term that produced the bytes.  The    *)
(* three collaborators (expand, PietrzakVDF, Keccak) are deterministic     *)
(* instrumented doubles: every call they receive is appended to the        *)
(* calling invocation's `log`, and which inputs they reject is fixed by    *)
(* `env`, chosen once in the initial state.  `kept` is a caller's copy of   *)
(* the arguments and result of one earlier call.                           *)
(***************************************************************************)
EXTENDS Integers, Sequences, FiniteSets, TLC

VARIABLES env, pc, args, block, vdf_output, i, keccak, result, log, kept

vars == <<env, pc, args, block, vdf_output, i, keccak, result, log, kept>>

(***************************************************************************)
(* Bounds and program constants                                            *)
(***************************************************************************)
MaxIter == 2

INPUT_HASH_SIZE == 32

NONCE_SIZE == 12

VdfIntSizeBits == 2048

KeccakRate == 1088 \div 8

ScenarioPenalty == 100

ScenarioDelay == 100

ScenarioIterations == 10

Calls == {1, 2}

(***************************************************************************)
(* Values                                                                  *)
(***************************************************************************)
None == [none |-> TRUE]

\* [b; n]: an array of n bytes, each b
Arr(n, b) == [len |-> n, fill |-> b]

Ok(v) == [ok |-> TRUE, val |-> v]

Err(e) == [ok |-> FALSE, val |-> e]

PrevHashes == {Arr(INPUT_HASH_SIZE, 1)}

RootHashes == {Arr(INPUT_HASH_SIZE, 2)}

Nonces == {Arr(NONCE_SIZE, 3), Arr(NONCE_SIZE, 4)}

Penalties == {0, 1, ScenarioPenalty}

Delays == {0, 2, ScenarioDelay}

Iterations == (0 .. MaxIter) \cup {ScenarioIterations}

Args ==
  [prev_hash : PrevHashes, root_hash : RootHashes, nonce : Nonces,
   penalty : Penalties, delay : Delays, vdf_iterations : Iterations]

ScenarioArgs ==
  [prev_hash |-> Arr(INPUT_HASH_SIZE, 1), root_hash |-> Arr(INPUT_HASH_SIZE, 2),
   nonce |-> Arr(NONCE_SIZE, 3), penalty |-> ScenarioPenalty,
   delay |-> ScenarioDelay, vdf_iterations |-> ScenarioIterations]

\* What the collaborator doubles reject: the expander by nonce, the VDF by
\* delay, and (rejectAt = k > 0) the VDF also rejects every seed that is the
\* output of k - 1 chained solves, so that solve number k of a chain fails.
Envs ==
  [badNonces : SUBSET Nonces, badDelays : SUBSET Delays, rejectAt : 0 .. MaxIter]

(***************************************************************************)
(* KeccakPrimeError and its conversions                                    *)
(***************************************************************************)
AesError(e) == [variant |-> "AesError", inner |-> e]

VdfInvalidIterations(e) == [variant |-> "VdfInvalidIterations", inner |-> e]

FromAeadError(e) == AesError(e)

\* faulty variant: the VDF error is wrapped in the wrong variant
FromInvalidIterationsAsAes(e) == AesError(e)

FromInvalidIterations(e) == VdfInvalidIterations(e)

(***************************************************************************)
(* Collaborators                                                           *)
(***************************************************************************)
AeadError == [error |-> "aes_gcm_siv::aead::Error"]

InvalidIterations(d) == [error |-> "InvalidIterations", delay |-> d]

expand(p, r, n) ==
  IF n \in env.badNonces
    THEN Err(AeadError)
    ELSE Ok([len |-> INPUT_HASH_SIZE, fn |-> "expand",
             prev_hash |-> p, root_hash |-> r, nonce |-> n])

PietrzakVDFParamsNew(bits) == [vdf |-> "Pietrzak", int_size_bits |-> bits]

RECURSIVE ChainDepth(_)
ChainDepth(seed) ==
  IF seed.fn = "solve" THEN 1 + ChainDepth(seed.seed) ELSE 0

solve(vdf, seed, d) ==
  IF d \in env.badDelays \/ ChainDepth(seed) + 1 = env.rejectAt
    THEN Err(InvalidIterations(d))
    ELSE Ok([fn |-> "solve", vdf |-> vdf, seed |-> seed, delay |-> d])

KeccakNew(rate) == [rate |-> rate, absorbed |-> <<>>]

update(k, data) == [k EXCEPT !.absorbed = Append(@, data)]

finalize_with_penalty(k, p) ==
  [len |-> INPUT_HASH_SIZE, fn |-> "finalize_with_penalty",
   state |-> k, penalty |-> p]

(***************************************************************************)
(* The instrumentation: one event per collaborator call                    *)
(***************************************************************************)
Event(op, in, out) == [op |-> op, in |-> in, out |-> out]

Logged(c, evs) == log' = [log EXCEPT ![c] = @ \o evs]

(***************************************************************************)
(* prime, one action per step                                              *)
(***************************************************************************)
Init ==
  /\ env \in Envs
  /\ pc = [c \in Calls |-> "idle"]
  /\ args = [c \in Calls |-> None]
  /\ block = [c \in Calls |-> None]
  /\ vdf_output = [c \in Calls |-> None]
  /\ i = [c \in Calls |-> 0]
  /\ keccak = [c \in Calls |-> None]
  /\ result = [c \in Calls |-> None]
  /\ log = [c \in Calls |-> <<>>]
  /\ kept = None

\* prime(prev_hash, root_hash, nonce, penalty, delay, vdf_iterations) is entered
Call(c, a) ==
  /\ pc[c] = "idle"
  /\ pc' = [pc EXCEPT ![c] = "expand"]
  /\ args' = [args EXCEPT ![c] = a]
  /\ UNCHANGED <<env, kept, block, vdf_output, i, keccak, result, log>>

\* faulty variant: a failed expansion is swallowed and the chain runs on an
\* all-zero block
ExpandSwallowsError(c) ==
  /\ pc[c] = "expand"
  /\ LET a == args[c]
         r == expand(a.prev_hash, a.root_hash, a.nonce)
         b == IF r.ok THEN r.val
              ELSE [len |-> INPUT_HASH_SIZE, fn |-> "default", fill |-> 0]
         ev == Event("expand",
                     [prev_hash |-> a.prev_hash, root_hash |-> a.root_hash,
                      nonce |-> a.nonce], r)
     IN /\ Logged(c, <<ev>>)
        /\ block' = [block EXCEPT ![c] = b]
        /\ vdf_output' = [vdf_output EXCEPT ![c] = b]
        /\ i' = [i EXCEPT ![c] = 0]
        /\ pc' = [pc EXCEPT ![c] = "loop"]
  /\ UNCHANGED <<env, kept, args, keccak, result>>

\* faulty variant: prime itself rejects a zero delay before expanding
ExpandValidatesDelay(c) ==
  /\ pc[c] = "expand"
  /\ IF args[c].delay = 0
       THEN /\ result' = [result EXCEPT
                           ![c] = Err(VdfInvalidIterations(InvalidIterations(0)))]
            /\ pc' = [pc EXCEPT ![c] = "done"]
            /\ UNCHANGED <<block, vdf_output, i, log>>
       ELSE LET a == args[c]
                r == expand(a.prev_hash, a.root_hash, a.nonce)
                ev == Event("expand",
                            [prev_hash |-> a.prev_hash, root_hash |-> a.root_hash,
                             nonce |-> a.nonce], r)
            IN /\ Logged(c, <<ev>>)
               /\ IF r.ok
                    THEN /\ block' = [block EXCEPT ![c] = r.val]
                         /\ vdf_output' = [vdf_output EXCEPT ![c] = r.val]
                         /\ i' = [i EXCEPT ![c] = 0]
                         /\ pc' = [pc EXCEPT ![c] = "loop"]
                         /\ UNCHANGED result
                    ELSE /\ result' =
                              [result EXCEPT ![c] = Err(FromAeadError(r.val))]
                         /\ pc' = [pc EXCEPT ![c] = "done"]
                         /\ UNCHANGED <<block, vdf_output, i>>
  /\ UNCHANGED <<env, kept, args, keccak>>

\* let block = expand(prev_hash, root_hash, nonce)?;  let mut vdf_output = block;
Expand(c) ==
  /\ pc[c] = "expand"
  /\ LET a == args[c]
         r == expand(a.prev_hash, a.root_hash, a.nonce)
         ev == Event("expand",
                     [prev_hash |-> a.prev_hash, root_hash |-> a.root_hash,
                      nonce |-> a.nonce], r)
     IN /\ Logged(c, <<ev>>)
        /\ IF r.ok
             THEN /\ block' = [block EXCEPT ![c] = r.val]
                  /\ vdf_output' = [vdf_output EXCEPT ![c] = r.val]
                  /\ i' = [i EXCEPT ![c] = 0]
                  /\ pc' = [pc EXCEPT ![c] = "loop"]
                  /\ UNCHANGED result
             ELSE /\ result' = [result EXCEPT ![c] = Err(FromAeadError(r.val))]
                  /\ pc' = [pc EXCEPT ![c] = "done"]
                  /\ UNCHANGED <<block, vdf_output, i>>
  /\ UNCHANGED <<env, kept, args, keccak>>

\* faulty variant: an inclusive range, 0..=vdf_iterations
LoopContinuesInclusive(c) == i[c] <= args[c].vdf_iterations

\* for _i in 0..vdf_iterations
LoopContinues(c) == i[c] < args[c].vdf_iterations

\* faulty variant: every solve is seeded with the expanded block
SolveSeedFromBlock(c) == block[c]

\* faulty variant: vdf_output is one buffer shared by all calls in flight, so
\* a solve reads what another call wrote last
SolveSeedShared(c) ==
  IF \E d \in Calls \ {c} : vdf_output[d] # None
    THEN vdf_output[CHOOSE d \in Calls \ {c} : vdf_output[d] # None]
    ELSE vdf_output[c]

\* faulty variant: the arguments are swapped, solve gets the iteration count
SolveDelayIsIterationCount(c) == args[c].vdf_iterations

\* the seed and the delay handed to solve: &vdf_output, delay
SolveSeed(c) == vdf_output[c]

SolveDelay(c) == args[c].delay

\* faulty variant: a failed solve is skipped and the loop goes on with the
\* seed it had
SolveIgnoresError(c) ==
  /\ pc[c] = "loop"
  /\ LoopContinues(c)
  /\ LET pietrzak_vdf == PietrzakVDFParamsNew(VdfIntSizeBits)
         r == solve(pietrzak_vdf, SolveSeed(c), SolveDelay(c))
         evNew == Event("vdf_new", [int_size_bits |-> VdfIntSizeBits], pietrzak_vdf)
         evSolve == Event("solve",
                          [vdf |-> pietrzak_vdf, seed |-> SolveSeed(c),
                           delay |-> SolveDelay(c)], r)
     IN /\ Logged(c, <<evNew, evSolve>>)
        /\ vdf_output' = [vdf_output EXCEPT ![c] = IF r.ok THEN r.val ELSE @]
        /\ i' = [i EXCEPT ![c] = @ + 1]
  /\ UNCHANGED <<env, kept, args, block, keccak, pc, result>>

\* faulty variant: a failed solve records the error but does not return
SolveErrorWithoutReturn(c) ==
  /\ pc[c] = "loop"
  /\ LoopContinues(c)
  /\ LET pietrzak_vdf == PietrzakVDFParamsNew(VdfIntSizeBits)
         r == solve(pietrzak_vdf, SolveSeed(c), SolveDelay(c))
         evNew == Event("vdf_new", [int_size_bits |-> VdfIntSizeBits], pietrzak_vdf)
         evSolve == Event("solve",
                          [vdf |-> pietrzak_vdf, seed |-> SolveSeed(c),
                           delay |-> SolveDelay(c)], r)
     IN /\ Logged(c, <<evNew, evSolve>>)
        /\ vdf_output' = [vdf_output EXCEPT ![c] = IF r.ok THEN r.val ELSE @]
        /\ result' = [result EXCEPT
                        ![c] = IF r.ok THEN @ ELSE Err(FromInvalidIterations(r.val))]
        /\ i' = [i EXCEPT ![c] = @ + 1]
  /\ UNCHANGED <<env, kept, args, block, keccak, pc>>

\* let pietrzak_vdf = PietrzakVDFParams(2048).new();
\* vdf_output = pietrzak_vdf.solve(&vdf_output, delay)?;
Solve(c) ==
  /\ pc[c] = "loop"
  /\ LoopContinues(c)
  /\ LET pietrzak_vdf == PietrzakVDFParamsNew(VdfIntSizeBits)
         r == solve(pietrzak_vdf, SolveSeed(c), SolveDelay(c))
         evNew == Event("vdf_new", [int_size_bits |-> VdfIntSizeBits], pietrzak_vdf)
         evSolve == Event("solve",
                          [vdf |-> pietrzak_vdf, seed |-> SolveSeed(c),
                           delay |-> SolveDelay(c)], r)
     IN /\ Logged(c, <<evNew, evSolve>>)
        /\ IF r.ok
             THEN /\ vdf_output' = [vdf_output EXCEPT ![c] = r.val]
                  /\ i' = [i EXCEPT ![c] = @ + 1]
                  /\ UNCHANGED <<pc, result>>
             ELSE /\ result' =
                       [result EXCEPT ![c] = Err(FromInvalidIterations(r.val))]
                  /\ pc' = [pc EXCEPT ![c] = "done"]
                  /\ UNCHANGED <<vdf_output, i>>
  /\ UNCHANGED <<env, kept, args, block, keccak>>

\* let mut keccak = Keccak::new(1088 / 8);
NewKeccak(c) ==
  /\ pc[c] = "loop"
  /\ ~LoopContinues(c)
  /\ LET k == KeccakNew(KeccakRate)
     IN /\ keccak' = [keccak EXCEPT ![c] = k]
        /\ Logged(c, <<Event("keccak_new", [rate |-> KeccakRate], k)>>)
  /\ pc' = [pc EXCEPT ![c] = "update"]
  /\ UNCHANGED <<env, kept, args, block, vdf_output, i, result>>

\* keccak.update(&vdf_output);
Update(c) ==
  /\ pc[c] = "update"
  /\ LET k == update(keccak[c], vdf_output[c])
     IN /\ keccak' = [keccak EXCEPT ![c] = k]
        /\ Logged(c, <<Event("update", [data |-> vdf_output[c]], k)>>)
  /\ pc' = [pc EXCEPT ![c] = "finalize"]
  /\ UNCHANGED <<env, kept, args, block, vdf_output, i, result>>

\* faulty variant: the penalty is dropped, finalize runs with no extra rounds
FinalizePenaltyZero(c) == 0

\* the penalty handed to finalize_with_penalty
FinalizePenalty(c) == args[c].penalty

\* Ok(keccak.finalize_with_penalty(penalty))
Finalize(c) ==
  /\ pc[c] = "finalize"
  /\ LET d == finalize_with_penalty(keccak[c], FinalizePenalty(c))
     IN /\ result' = [result EXCEPT ![c] = Ok(d)]
        /\ Logged(c, <<Event("finalize", [penalty |-> FinalizePenalty(c)], d)>>)
  /\ pc' = [pc EXCEPT ![c] = "done"]
  /\ UNCHANGED <<env, kept, args, block, vdf_output, i, keccak>>

\* prime has returned: its locals are dropped, the caller holds the result
Return(c) ==
  /\ pc[c] = "done"
  /\ pc' = [pc EXCEPT ![c] = "returned"]
  /\ block' = [block EXCEPT ![c] = None]
  /\ vdf_output' = [vdf_output EXCEPT ![c] = None]
  /\ i' = [i EXCEPT ![c] = 0]
  /\ keccak' = [keccak EXCEPT ![c] = None]
  /\ UNCHANGED <<env, kept, args, result, log>>

\* the caller discards the result; the slot is free for the next call
Discard(c) ==
  /\ pc[c] = "returned"
  /\ pc' = [pc EXCEPT ![c] = "idle"]
  /\ args' = [args EXCEPT ![c] = None]
  /\ result' = [result EXCEPT ![c] = None]
  /\ log' = [log EXCEPT ![c] = <<>>]
  /\ UNCHANGED <<env, kept, block, vdf_output, i, keccak>>

Step(c) ==
  \/ Expand(c)
  \/ Solve(c)
  \/ NewKeccak(c)
  \/ Update(c)
  \/ Finalize(c)
  \/ Return(c)

\* one caller, one call at a time
Next ==
  \/ \E a \in Args : Call(1, a)
  \/ Step(1)
  \/ Discard(1)

Spec == Init /\ [][Next]_vars

\* a call that has been entered runs on: prime is one synchronous call chain
FairSpec == Spec /\ WF_vars(Step(1))

(***************************************************************************)
(* Several callers: calls to prime overlap and interleave step by step     *)
(***************************************************************************)
ParArgs ==
  [prev_hash : PrevHashes, root_hash : RootHashes, nonce : Nonces,
   penalty : {0, 1}, delay : {0, ScenarioDelay}, vdf_iterations : 0 .. MaxIter]

ParEnvs ==
  [badNonces : {{Arr(NONCE_SIZE, 4)}}, badDelays : {{0}}, rejectAt : {0, 2}]

ParInit == Init /\ env \in ParEnvs

\* a caller keeps the arguments and the result of a call that has returned
Keep(c) ==
  /\ pc[c] = "returned"
  /\ kept = None
  /\ kept' = [args |-> args[c], result |-> result[c]]
  /\ UNCHANGED <<env, pc, args, block, vdf_output, i, keccak, result, log>>

ParNext ==
  \E c \in Calls :
    \/ \E a \in ParArgs : Call(c, a)
    \/ Step(c)
    \/ Keep(c)
    \/ Discard(c)

ParSpec == ParInit /\ [][ParNext]_vars

(***************************************************************************)
(* What the instrumentation recorded for a call                            *)
(***************************************************************************)
Finished(c) == pc[c] \in {"done", "returned"}

IsExpand(e) == e.op = "expand"

IsVdfNew(e) == e.op = "vdf_new"

IsSolve(e) == e.op = "solve"

IsSponge(e) == e.op \in {"keccak_new", "update", "finalize"}

IsUpdate(e) == e.op = "update"

IsFinalize(e) == e.op = "finalize"

Expands(c) == SelectSeq(log[c], IsExpand)

VdfNews(c) == SelectSeq(log[c], IsVdfNew)

Solves(c) == SelectSeq(log[c], IsSolve)

SpongeCalls(c) == SelectSeq(log[c], IsSponge)

Updates(c) == SelectSeq(log[c], IsUpdate)

Finalizes(c) == SelectSeq(log[c], IsFinalize)

ExpandFailed(c) == \E k \in 1 .. Len(Expands(c)) : ~Expands(c)[k].out.ok

ExpandOk(c) == Len(Expands(c)) >= 1 /\ Expands(c)[1].out.ok

SolveFailed(c) == \E k \in 1 .. Len(Solves(c)) : ~Solves(c)[k].out.ok

AllSolvesOk(c) == \A k \in 1 .. Len(Solves(c)) : Solves(c)[k].out.ok

\* solve number k of call c is the first one to fail
FirstFailure(c, k) ==
  /\ k \in 1 .. Len(Solves(c))
  /\ ~Solves(c)[k].out.ok
  /\ \A j \in 1 .. (k - 1) : Solves(c)[j].out.ok

(***************************************************************************)
(* C1: in a finished call whose expander and solves all succeeded, solve   *)
(* was called exactly vdf_iterations times, the first seed is the expanded *)
(* block, each later seed is the previous solve's output, and the sponge   *)
(* absorbed exactly the last solve's output.                               *)
(***************************************************************************)
C1_SolveChain ==
  \A c \in Calls :
    (Finished(c) /\ ExpandOk(c) /\ AllSolvesOk(c)) =>
      LET S == Solves(c)
      IN /\ Len(S) = args[c].vdf_iterations
         /\ Len(S) > 0 => S[1].in.seed = Expands(c)[1].out.val
         /\ \A k \in 1 .. (Len(S) - 1) : S[k + 1].in.seed = S[k].out.val
         /\ Len(S) > 0 =>
              /\ Len(Updates(c)) = 1
              /\ Updates(c)[1].in.data = S[Len(S)].out.val
              /\ Updates(c)[1].out.absorbed = <<S[Len(S)].out.val>>

C1_Witness ==
  \E c \in Calls :
    /\ Finished(c)
    /\ result[c].ok
    /\ args[c].vdf_iterations = ScenarioIterations
    /\ Len(Solves(c)) = ScenarioIterations

(***************************************************************************)
(* C2: once the expander has failed, the call is over with                 *)
(* AesError(the expander's error); the expander was called once and        *)
(* nothing else was called: no VDF instance, no solve, no sponge.          *)
(***************************************************************************)
C2_ExpandErrorShortCircuit ==
  \A c \in Calls :
    ExpandFailed(c) =>
      /\ Finished(c)
      /\ result[c] = Err(AesError(Expands(c)[1].out.val))
      /\ Len(Expands(c)) = 1
      /\ Len(log[c]) = 1
      /\ VdfNews(c) = <<>> /\ Solves(c) = <<>> /\ SpongeCalls(c) = <<>>
      /\ keccak[c] = None

C2_Witness ==
  \E c \in Calls :
    /\ Finished(c)
    /\ ExpandFailed(c)
    /\ args[c].vdf_iterations > 0
    /\ ~result[c].ok /\ result[c].val.variant = "AesError"

(***************************************************************************)
(* C3: when solve number k is the first to fail, the call is over with     *)
(* VdfInvalidIterations(that solve's error), exactly k solves were made    *)
(* (k <= vdf_iterations) and the sponge was never built, fed or finalized. *)
(***************************************************************************)
C3_SolveErrorShortCircuit ==
  \A c \in Calls :
    \A k \in 1 .. Len(Solves(c)) :
      FirstFailure(c, k) =>
        /\ Finished(c)
        /\ result[c] = Err(VdfInvalidIterations(Solves(c)[k].out.val))
        /\ Len(Solves(c)) = k
        /\ k <= args[c].vdf_iterations
        /\ SpongeCalls(c) = <<>>
        /\ keccak[c] = None

C3_Witness ==
  \E c \in Calls :
    /\ Finished(c)
    /\ FirstFailure(c, 2)
    /\ args[c].vdf_iterations > 2

ReferenceDigest(b, p) == finalize_with_penalty(update(KeccakNew(136), b), p)

(***************************************************************************)
(* C4: with vdf_iterations = 0 and a successful expander no solve is made  *)
(* and the digest is the one obtained by building the sponge with the      *)
(* fixed rate, absorbing the expanded block once and finalizing with the   *)
(* caller's penalty, whatever the other arguments are.                     *)
(***************************************************************************)
C4_ZeroIterationIdentity ==
  \A c \in Calls :
    (Finished(c) /\ ExpandOk(c) /\ args[c].vdf_iterations = 0) =>
      /\ Solves(c) = <<>>
      /\ VdfNews(c) = <<>>
      /\ result[c] = Ok(ReferenceDigest(Expands(c)[1].out.val, args[c].penalty))

C4_Witness ==
  \E c \in Calls :
    /\ Finished(c)
    /\ args[c].vdf_iterations = 0
    /\ args[c].penalty = ScenarioPenalty
    /\ result[c].ok

CallRecords ==
  {[args |-> args[c], result |-> result[c]] : c \in {d \in Calls : Finished(d)}}
    \cup (IF kept = None THEN {} ELSE {kept})

SameArgsSameResult ==
  \A r1, r2 \in CallRecords : r1.args = r2.args => r1.result = r2.result

NothingOutlivesCall ==
  \A c \in Calls :
    pc[c] \in {"idle", "returned"} =>
      block[c] = None /\ vdf_output[c] = None /\ keccak[c] = None

\* a call that takes no step keeps its arguments, locals, result and record
NoInterference ==
  /\ env' = env
  /\ \A c \in Calls :
       (pc'[c] = pc[c] /\ log'[c] = log[c]) =>
         /\ args'[c] = args[c]
         /\ block'[c] = block[c]
         /\ vdf_output'[c] = vdf_output[c]
         /\ i'[c] = i[c]
         /\ keccak'[c] = keccak[c]
         /\ result'[c] = result[c]

(***************************************************************************)
(* C5: with deterministic collaborators, any two calls with the same       *)
(* arguments have the same result, whatever calls ran before, between or   *)
(* interleaved with them; a step of one call changes nothing of another    *)
(* call or of the collaborators, and a returned call has left no locals.   *)
(***************************************************************************)
C5_Determinism ==
  /\ [](SameArgsSameResult /\ NothingOutlivesCall)
  /\ [][NoInterference]_vars

C5_Witness ==
  /\ kept # None
  /\ Finished(1)
  /\ kept.args = args[1]
  /\ kept.result.ok
  /\ args[1].vdf_iterations = 2
  /\ pc[2] = "loop" /\ i[2] = 1
  /\ args[2] # args[1]

IsDigest(r) == r.ok /\ r.val.fn = "finalize_with_penalty"

IsAesError(r) == ~r.ok /\ r.val.variant = "AesError"

IsVdfError(r) == ~r.ok /\ r.val.variant = "VdfInvalidIterations"

(***************************************************************************)
(* C6: a finished call holds a digest, an AesError or a                    *)
(* VdfInvalidIterations and nothing else; AesError exactly when the        *)
(* expander failed, VdfInvalidIterations exactly when the expander         *)
(* succeeded and a solve failed; a call that reached the sponge holds a    *)
(* digest; the variant carries the failing collaborator's error as is.     *)
(***************************************************************************)
C6_ErrorTaxonomy ==
  \A c \in Calls :
    Finished(c) =>
      LET r == result[c]
      IN /\ IsDigest(r) \/ IsAesError(r) \/ IsVdfError(r)
         /\ IsAesError(r) <=> ExpandFailed(c)
         /\ IsVdfError(r) <=> (ExpandOk(c) /\ SolveFailed(c))
         /\ SpongeCalls(c) # <<>> => IsDigest(r)
         /\ IsDigest(r) => r.val = Finalizes(c)[Len(Finalizes(c))].out
         /\ ~r.ok =>
              /\ ~log[c][Len(log[c])].out.ok
              /\ r.val.inner = log[c][Len(log[c])].out.val

C6_Witness ==
  \E c \in Calls :
    /\ Finished(c)
    /\ IsVdfError(result[c])
    /\ Len(Solves(c)) = 1
    /\ args[c].delay \in env.badDelays
    /\ result[c].val.inner = InvalidIterations(args[c].delay)

ExpanderAccepts(a) == a.nonce \notin env.badNonces

VdfAccepts(a) ==
  /\ a.delay \notin env.badDelays
  /\ env.rejectAt \notin 1 .. a.vdf_iterations

(***************************************************************************)
(* C7: when the expander accepts the inputs and the VDF accepts the delay  *)
(* (and every seed of the chain), the call succeeds with a digest of       *)
(* INPUT_HASH_SIZE = 32 bytes, for every penalty and iteration count; the  *)
(* scenario of the repository's test is such a call.                       *)
(***************************************************************************)
C7_SucceedsWithFixedSizeDigest ==
  \A c \in Calls :
    Finished(c) =>
      /\ (ExpanderAccepts(args[c]) /\ VdfAccepts(args[c])) =>
           /\ result[c].ok
           /\ result[c].val.len = 32
      /\ result[c].ok => result[c].val.len = 32

C7_Witness ==
  \E c \in Calls :
    /\ Finished(c)
    /\ args[c] = ScenarioArgs
    /\ result[c].ok
    /\ result[c].val.len = 32

ParametersPassedUnchanged ==
  \A c \in Calls :
    /\ \A k \in 1 .. Len(Solves(c)) :
         /\ Solves(c)[k].in.delay = args[c].delay
         /\ Solves(c)[k].in.vdf.int_size_bits = 2048
    /\ \A k \in 1 .. Len(VdfNews(c)) : VdfNews(c)[k].in.int_size_bits = 2048
    /\ Len(VdfNews(c)) = Len(Solves(c))
    /\ \A k \in 1 .. Len(Finalizes(c)) :
         /\ Finalizes(c)[k].in.penalty = args[c].penalty
         /\ Finalizes(c)[k].out.penalty = args[c].penalty
    /\ Len(Finalizes(c)) <= 1
    /\ (Finished(c) /\ result[c].ok) => Len(Finalizes(c)) = 1

ArgumentsFrozen ==
  \A c \in Calls : (pc[c] # "idle" /\ pc'[c] # "idle") => args'[c] = args[c]

(***************************************************************************)
(* C8: every solve of a call gets the caller's delay, every VDF instance   *)
(* is built from 2048, finalize_with_penalty is called at most once (once  *)
(* in a successful call) with the caller's penalty, and the arguments of a *)
(* call in progress never change.                                          *)
(***************************************************************************)
C8_ParametersUnchanged ==
  /\ []ParametersPassedUnchanged
  /\ [][ArgumentsFrozen]_vars

C8_Witness ==
  \E c \in Calls :
    /\ Finished(c)
    /\ result[c].ok
    /\ args[c].vdf_iterations = 2
    /\ args[c].delay = 2
    /\ args[c].penalty = 1

StageOf(e) ==
  CASE e.op = "expand" -> 1
    [] e.op \in {"vdf_new", "solve"} -> 2
    [] OTHER -> 3

PcRank(p) ==
  CASE p = "expand" -> 1
    [] p = "loop" -> 2
    [] p = "update" -> 3
    [] p = "finalize" -> 4
    [] p = "done" -> 5
    [] p = "returned" -> 6
    [] OTHER -> 0

LinearPipeline ==
  \A c \in Calls :
    /\ Len(Expands(c)) <= 1
    /\ pc[c] \notin {"idle", "expand"} => Len(Expands(c)) = 1
    /\ pc[c] # "idle" => Len(Solves(c)) <= args[c].vdf_iterations
    /\ pc[c] = "idle" => log[c] = <<>>
    /\ Len(Finalizes(c)) <= 1
    /\ \A j, k \in 1 .. Len(log[c]) :
         j < k => StageOf(log[c][j]) <= StageOf(log[c][k])
    /\ Finished(c) <=> result[c] # None

NoStepBack ==
  \A c \in Calls :
    /\ pc'[c] # "idle" => PcRank(pc'[c]) >= PcRank(pc[c])
    /\ Finished(c) =>
         /\ log'[c] = log[c] \/ pc'[c] = "idle"
         /\ result'[c] = result[c] \/ pc'[c] = "idle"

(***************************************************************************)
(* C9: a call that has been entered reaches a terminal state (a digest or  *)
(* an error); it makes one expander call, at most vdf_iterations solves    *)
(* and at most one finalize, in the order Expand, solves, sponge, never    *)
(* stepping back, and after the terminal state it calls nothing.           *)
(***************************************************************************)
C9_TerminatesLinearly ==
  /\ \A c \in {1} : (pc[c] = "expand") ~> Finished(c)
  /\ []LinearPipeline
  /\ [][NoStepBack]_vars

C9_Witness ==
  \E c \in Calls :
    /\ Finished(c)
    /\ args[c].vdf_iterations = 2
    /\ Len(log[c]) = 8
    /\ log[c][8].op = "finalize"

(***************************************************************************)
(* C10: prime does not validate delay: a VdfInvalidIterations result       *)
(* always comes from a solve call that failed, and with vdf_iterations = 0 *)
(* and a successful expander the call yields a digest for every delay,     *)
(* one the VDF would reject included.                                      *)
(***************************************************************************)
C10_DelayNotValidatedByPrime ==
  \A c \in Calls :
    Finished(c) =>
      /\ IsVdfError(result[c]) =>
           /\ Len(Solves(c)) >= 1
           /\ log[c][Len(log[c])].op = "solve"
           /\ ~log[c][Len(log[c])].out.ok
      /\ (args[c].vdf_iterations = 0 /\ ExpanderAccepts(args[c])) =>
           IsDigest(result[c])

C10_Witness ==
  \E c \in Calls :
    /\ Finished(c)
    /\ args[c].vdf_iterations = 0
    /\ args[c].delay = 0
    /\ 0 \in env.badDelays
    /\ IsDigest(result[c])

====
